---------------------------- MODULE Spec2Model ----------------------------
(***************************************************************************)
(* Model of the management command merge_duplicate_positions               *)
(* (app/management/commands/merge_duplicate_positions.py).                 *)
(*                                                                         *)
(* One run of the command is Command.handle: in mutating mode it wraps     *)
(* Command._process_duplicates in transaction.atomic(), in dry-run mode it *)
(* calls it bare.  _process_duplicates lists the Position rows, groups     *)
(* them by (person_id, org_id, semester, year), and for each group of more *)
(* than one row sorts the rows by pos, refuses (ValueError) when a row     *)
(* behind the first is_admin, and otherwise deletes every row behind the   *)
(* first.  An exception leaving the atomic block rolls the transaction     *)
(* back.                                                                   *)
(*                                                                         *)
(* A Position row is a record [id, person_id, org_id, semester, year, pos, *)
(* is_admin].  The table is a set of rows; Position.objects.all() carries  *)
(* no order_by, so the order in which the rows arrive is any order.        *)
(***************************************************************************)
EXTENDS Integers, Sequences, FiniteSets, TLC

\* ------------------------------------------------------------------ bounds
\* Largest number of Position rows in the table when the model starts.
MaxRecords == 4
\* pos ranges over 1..MaxPos.
MaxPos == 2
\* Largest number of rows in the table of the costlier specifications: the
\* command run twice, and the fair run.
MaxSmall == 3
\* Largest number of rows in the table of the grouping specification.
MaxFind == 4

\* The identity keys (person_id, org_id, semester, year) of the rows of the
\* run model.
KeySeq == << <<1, 1, "Fall", 2024>>, <<2, 1, "Fall", 2024>> >>

\* The identity keys of the grouping specification: the first, and one key
\* differing from it in each single field.
FindKeySeq ==
    << <<1, 1, "Fall", 2024>>, <<2, 1, "Fall", 2024>>, <<1, 2, "Fall", 2024>>,
       <<1, 1, "Spring", 2024>>, <<1, 1, "Fall", 2025>> >>

VARIABLES
    db,             \* the Position table as the connection sees it: a set of rows
    savepoint,      \* the table as it was when transaction.atomic() was entered
    tx,             \* "none" | "open" | "committed" | "rolledback"
    pc,             \* position of the run, see Phases
    dry_run,        \* options['dry_run']
    fetched,        \* the rows the query of find_duplicates returned, in order
    duplicates,     \* the dict find_duplicates returned, in insertion order
    idx,            \* index of the group the for loop is at
    delete_queue,   \* rows of delete_positions not yet deleted (mutating mode)
    total_merged,
    total_deleted,
    exc,            \* the exception leaving _process_duplicates, or "none"
    violation,      \* the admin-position error written, or NoViolation
    merges,         \* per processed group: the row kept and the rows to delete
    summary,        \* the summary line written, or NoSummary
    no_dups,        \* 'No duplicate Position objects found.' was written
    issued,         \* ids on which delete() was called in this run
    before,         \* the table when the run started
    store_failure,  \* the store call that failed in this run, or "none"
    prev            \* what the previous run of the command did, or NoRun

vars == << db, savepoint, tx, pc, dry_run, fetched, duplicates, idx,
           delete_queue, total_merged, total_deleted, exc, violation, merges,
           summary, no_dups, issued, before, store_failure, prev >>

Terminal == {"Committed", "RolledBack", "Completed", "Aborted"}
Phases == {"Start", "find", "group", "loop", "delete", "exit"} \cup Terminal

NoViolation == [key |-> << >>, count |-> 0]
NoSummary == [merged |-> -1, deleted |-> -1]
NoRun == [ran |-> FALSE]

\* ------------------------------------------------------------ pure helpers
Range(s) == {s[i] : i \in 1..Len(s)}

Ids(rows) == {r.id : r \in rows}

\* The orders in which a query without order_by can return the rows.
Orders(rows) ==
    {o \in [1..Cardinality(rows) -> rows] :
        \A i, j \in 1..Cardinality(rows) : i # j => o[i] # o[j]}

\* group_key leaving the year out.
group_key_without_year(position) ==
    << position.person_id, position.org_id, position.semester >>

\* group_key of a row (find_duplicates).
group_key(position) ==
    << position.person_id, position.org_id, position.semester, position.year >>

\* The defaultdict(list) after the for loop of lines 135-142 over the rows in
\* the order they came: a dict keeps its keys in the order of their first
\* insertion, and each list holds the rows of its key in the order they came.
Grouped(rows) ==
    LET key(i) == group_key(rows[i])
        firsts == SelectSeq([i \in 1..Len(rows) |-> i],
                            LAMBDA i : \A j \in 1..(i - 1) : key(j) # key(i))
    IN  [k \in 1..Len(firsts) |->
            [key |-> key(firsts[k]),
             positions |->
                 SelectSeq(rows, LAMBDA p : group_key(p) = key(firsts[k]))]]

\* find_duplicates with the filter off by one: pairs are not duplicates.
find_duplicates_pairs_missed(rows) ==
    SelectSeq(Grouped(rows), LAMBDA g : Len(g.positions) > 2)

\* find_duplicates: only the groups with more than one row.
find_duplicates(rows) ==
    SelectSeq(Grouped(rows), LAMBDA g : Len(g.positions) > 1)

\* positions_sorted without the sort: the rows as the store returned them.
positions_sorted_unsorted(positions) == positions

\* sorted(positions, key=lambda p: p.pos).  Python's sort is stable: a row
\* comes behind the rows of smaller pos and behind the rows of equal pos that
\* stood before it in the list.
positions_sorted(positions) ==
    LET n == Len(positions)
        Place(i) ==
            1 + Cardinality({j \in 1..n :
                    \/ positions[j].pos < positions[i].pos
                    \/ positions[j].pos = positions[i].pos /\ j < i})
    IN  [k \in 1..n |-> positions[CHOOSE i \in 1..n : Place(i) = k]]

\* positions_sorted[1:]
Tail1(s) == SubSeq(s, 2, Len(s))

\* admin_positions_to_delete without the [1:]: the row to keep is looked
\* at too.
admin_positions_to_delete_whole_list(sorted) ==
    SelectSeq(sorted, LAMBDA p : p.is_admin)

\* admin_positions_to_delete looking from the third row on.
admin_positions_to_delete_from_third(sorted) ==
    SelectSeq(SubSeq(sorted, 3, Len(sorted)), LAMBDA p : p.is_admin)

\* Line 65: the rows behind the first that are admin positions.
admin_positions_to_delete(sorted) ==
    SelectSeq(Tail1(sorted), LAMBDA p : p.is_admin)

keep_position(sorted) == sorted[1]

\* delete_positions without the [1:]: the row to keep is deleted too.
delete_positions_whole_list(sorted) == sorted

delete_positions(sorted) == Tail1(sorted)

\* The dry-run count taking the whole group, the row kept included.
WouldDelete_whole_group(to_delete) == Len(to_delete) + 1

\* total_deleted += len(delete_positions), the dry-run count.
WouldDelete(to_delete) == Len(to_delete)

\* Line 93, `if not dry_run:`, always taken.
DoDelete_always(d) == TRUE

\* Line 93, `if not dry_run:`: the rows are deleted, not only counted.
DoDelete(d) == ~d

\* pos.delete() deleting by the identity key: every row of the group goes.
DeleteRow_by_key(rows, p) == {r \in rows : group_key(r) # group_key(p)}

\* pos.delete() deleting nothing.
DeleteRow_nothing(rows, p) == rows

\* pos.delete(): DELETE ... WHERE id = pos.id
DeleteRow(rows, p) == {r \in rows : r.id # p.id}

\* ------------------------------------------------------------ initial data
Row(i, k, p, a) ==
    [id |-> i, person_id |-> k[1], org_id |-> k[2], semester |-> k[3],
     year |-> k[4], pos |-> p, is_admin |-> a]

\* The tables of n rows over the keys of keyseq, with pos in 1..maxpos and
\* is_admin in admins.  Ids number the rows; the tables are listed up to a
\* renaming of the ids (key, pos, is_admin do not decrease along the ids),
\* and every arrival order of every table is tried by FindDuplicates.
Tables(keyseq, n, maxpos, admins) ==
    LET Code(f) == (f[1] * (maxpos + 1) + f[2]) * 2 + (IF f[3] THEN 1 ELSE 0)
        Fields == (1..Len(keyseq)) \X (1..maxpos) \X admins
    IN  {{Row(i, keyseq[f[i][1]], f[i][2], f[i][3]) : i \in 1..n} :
            f \in {g \in [1..n -> Fields] :
                      \A i \in 1..(n - 1) : Code(g[i]) <= Code(g[i + 1])}}

RunVarsInit ==
    /\ savepoint = {}
    /\ tx = "none"
    /\ pc = "Start"
    /\ dry_run = FALSE
    /\ fetched = << >>
    /\ duplicates = << >>
    /\ idx = 0
    /\ delete_queue = << >>
    /\ total_merged = 0
    /\ total_deleted = 0
    /\ exc = "none"
    /\ violation = NoViolation
    /\ merges = << >>
    /\ summary = NoSummary
    /\ no_dups = FALSE
    /\ issued = {}
    /\ store_failure = "none"
    /\ prev = NoRun

Init ==
    /\ \E n \in 0..MaxRecords : db \in Tables(KeySeq, n, MaxPos, BOOLEAN)
    /\ before = db
    /\ RunVarsInit

\* The smaller tables.
InitSmall ==
    /\ \E n \in 0..MaxSmall : db \in Tables(KeySeq, n, MaxPos, BOOLEAN)
    /\ before = db
    /\ RunVarsInit

\* The tables of the grouping specification: many keys, one pos, no admin.
InitFind ==
    /\ \E n \in 0..MaxFind : db \in Tables(FindKeySeq, n, 1, {FALSE})
    /\ before = db
    /\ RunVarsInit

\* ----------------------------------------------------------------- actions
\* handle() calling _process_duplicates bare in both modes: no atomic block
\* is entered.
Handle_no_transaction(d) ==
    /\ pc = "Start"
    /\ dry_run' = d
    /\ before' = db
    /\ tx' = "none"
    /\ savepoint' = {}
    /\ pc' = "find"
    /\ UNCHANGED << db, fetched, duplicates, idx, delete_queue, total_merged,
                    total_deleted, exc, violation, merges, summary, no_dups,
                    issued, store_failure, prev >>

\* handle(): read the flag; in mutating mode enter transaction.atomic().
Handle(d) ==
    /\ pc = "Start"
    /\ dry_run' = d
    /\ before' = db
    /\ tx' = IF d THEN "none" ELSE "open"
    /\ savepoint' = IF d THEN {} ELSE db
    /\ pc' = "find"
    /\ UNCHANGED << db, fetched, duplicates, idx, delete_queue, total_merged,
                    total_deleted, exc, violation, merges, summary, no_dups,
                    issued, store_failure, prev >>

\* find_duplicates, lines 133-135: the query is run and returns the rows of
\* the table in some order.
ListAll ==
    /\ pc = "find"
    /\ fetched' \in Orders(db)
    /\ pc' = "group"
    /\ UNCHANGED << db, savepoint, tx, dry_run, duplicates, idx, delete_queue,
                    total_merged, total_deleted, exc, violation, merges,
                    summary, no_dups, issued, before, store_failure, prev >>

\* find_duplicates, lines 135-145, and _process_duplicates, lines 35-46: the
\* rows are grouped; with no group left the run writes so and returns.
FindDuplicates ==
    /\ pc = "group"
    /\ duplicates' = find_duplicates(fetched)
    /\ fetched' = << >>
    /\ no_dups' = (find_duplicates(fetched) = << >>)
    /\ pc' = IF find_duplicates(fetched) = << >> THEN "exit" ELSE "loop"
    /\ idx' = IF find_duplicates(fetched) = << >> THEN idx ELSE 1
    /\ UNCHANGED << db, savepoint, tx, dry_run, delete_queue, total_merged,
                    total_deleted, exc, violation, merges, summary, issued,
                    before, store_failure, prev >>

\* The failure of Position.objects.all() caught inside find_duplicates, which
\* then returns an empty dict.
ListFails_swallowed ==
    /\ pc = "find"
    /\ store_failure' = "list"
    /\ no_dups' = TRUE
    /\ pc' = "exit"
    /\ UNCHANGED << db, savepoint, tx, dry_run, fetched, duplicates, idx,
                    delete_queue, total_merged, total_deleted, exc, violation,
                    merges, summary, issued, before, prev >>

\* Position.objects.all() cannot be read: the exception leaves find_duplicates
\* and _process_duplicates, nothing catches it.
ListFails ==
    /\ pc = "find"
    /\ exc' = "StoreUnavailable"
    /\ store_failure' = "list"
    /\ pc' = "exit"
    /\ UNCHANGED << db, savepoint, tx, dry_run, fetched, duplicates, idx,
                    delete_queue, total_merged, total_deleted, violation,
                    merges, summary, no_dups, issued, before, prev >>

\* Lines 54-55: NaturalPerson.objects.get / Organization.objects.get raise.
LookupFails ==
    /\ pc = "loop"
    /\ idx <= Len(duplicates)
    /\ Len(duplicates[idx].positions) > 1
    /\ exc' = "LookupFailed"
    /\ store_failure' = "lookup"
    /\ pc' = "exit"
    /\ UNCHANGED << db, savepoint, tx, dry_run, fetched, duplicates, idx,
                    delete_queue, total_merged, total_deleted, violation,
                    merges, summary, no_dups, issued, before, prev >>

\* The pass of the for loop with lines 78-81 left out: the admin error is
\* written, nothing is raised, and the loop goes on with the next group.
ProcessGroup_no_raise ==
    /\ pc = "loop"
    /\ idx <= Len(duplicates)
    /\ LET positions == duplicates[idx].positions
           sorted == positions_sorted(positions)
           admins == admin_positions_to_delete(sorted)
       IN  IF Len(positions) <= 1
           THEN /\ idx' = idx + 1
                /\ UNCHANGED << pc, exc, violation, merges, delete_queue,
                                total_merged, total_deleted >>
           ELSE IF admins # << >>
           THEN /\ violation' = [key |-> duplicates[idx].key,
                                 count |-> Len(admins)]
                /\ idx' = idx + 1
                /\ UNCHANGED << pc, exc, merges, delete_queue, total_merged,
                                total_deleted >>
           ELSE /\ merges' = Append(merges,
                                [key |-> duplicates[idx].key,
                                 keep |-> keep_position(sorted),
                                 delete |-> delete_positions(sorted)])
                /\ UNCHANGED << exc, violation >>
                /\ IF ~DoDelete(dry_run)
                   THEN /\ total_deleted' =
                              total_deleted
                                  + WouldDelete(delete_positions(sorted))
                        /\ total_merged' = total_merged + 1
                        /\ idx' = idx + 1
                        /\ UNCHANGED << pc, delete_queue >>
                   ELSE /\ delete_queue' = delete_positions(sorted)
                        /\ pc' = "delete"
                        /\ UNCHANGED << idx, total_merged, total_deleted >>
    /\ UNCHANGED << db, savepoint, tx, dry_run, fetched, duplicates, summary,
                    no_dups, issued, before, store_failure, prev >>

\* One pass of the for loop, lines 48-92 and 108-110: sort, check, choose.
ProcessGroup ==
    /\ pc = "loop"
    /\ idx <= Len(duplicates)
    /\ LET positions == duplicates[idx].positions
           sorted == positions_sorted(positions)
           admins == admin_positions_to_delete(sorted)
       IN  IF Len(positions) <= 1
           THEN /\ idx' = idx + 1
                /\ UNCHANGED << pc, exc, violation, merges, delete_queue,
                                total_merged, total_deleted >>
           ELSE IF admins # << >>
           THEN /\ violation' = [key |-> duplicates[idx].key,
                                 count |-> Len(admins)]
                /\ exc' = "ValueError"
                /\ pc' = "exit"
                /\ UNCHANGED << idx, merges, delete_queue, total_merged,
                                total_deleted >>
           ELSE /\ merges' = Append(merges,
                                [key |-> duplicates[idx].key,
                                 keep |-> keep_position(sorted),
                                 delete |-> delete_positions(sorted)])
                /\ UNCHANGED << exc, violation >>
                /\ IF ~DoDelete(dry_run)
                   THEN /\ total_deleted' =
                              total_deleted
                                  + WouldDelete(delete_positions(sorted))
                        /\ total_merged' = total_merged + 1
                        /\ idx' = idx + 1
                        /\ UNCHANGED << pc, delete_queue >>
                   ELSE /\ delete_queue' = delete_positions(sorted)
                        /\ pc' = "delete"
                        /\ UNCHANGED << idx, total_merged, total_deleted >>
    /\ UNCHANGED << db, savepoint, tx, dry_run, fetched, duplicates, summary,
                    no_dups, issued, before, store_failure, prev >>

\* Lines 96-99: pos.delete() succeeds; behind the last one the group counts.
DeleteOk ==
    /\ pc = "delete"
    /\ delete_queue # << >>
    /\ db' = DeleteRow(db, Head(delete_queue))
    /\ issued' = issued \cup {Head(delete_queue).id}
    /\ total_deleted' = total_deleted + 1
    /\ delete_queue' = Tail(delete_queue)
    /\ IF Tail(delete_queue) = << >>
       THEN /\ total_merged' = total_merged + 1
            /\ idx' = idx + 1
            /\ pc' = "loop"
       ELSE UNCHANGED << total_merged, idx, pc >>
    /\ UNCHANGED << savepoint, tx, dry_run, fetched, duplicates, exc,
                    violation, merges, summary, no_dups, before,
                    store_failure, prev >>

\* The except block of lines 101-107 without its `raise`: the error is
\* written and the loop goes on with the next group.
DeleteFails_swallowed ==
    /\ pc = "delete"
    /\ delete_queue # << >>
    /\ issued' = issued \cup {Head(delete_queue).id}
    /\ store_failure' = "delete"
    /\ delete_queue' = << >>
    /\ idx' = idx + 1
    /\ pc' = "loop"
    /\ UNCHANGED << db, savepoint, tx, dry_run, fetched, duplicates,
                    total_merged, total_deleted, exc, violation, merges,
                    summary, no_dups, before, prev >>

\* Lines 97 and 101-107: pos.delete() raises; the handler writes and re-raises.
DeleteFails ==
    /\ pc = "delete"
    /\ delete_queue # << >>
    /\ issued' = issued \cup {Head(delete_queue).id}
    /\ exc' = "DeleteFailed"
    /\ store_failure' = "delete"
    /\ pc' = "exit"
    /\ UNCHANGED << db, savepoint, tx, dry_run, fetched, duplicates, idx,
                    delete_queue, total_merged, total_deleted, violation,
                    merges, summary, no_dups, before, prev >>

\* The summary with its two counts changed over.
Summary_counts_swapped ==
    /\ pc = "loop"
    /\ idx > Len(duplicates)
    /\ summary' = [merged |-> total_deleted, deleted |-> total_merged]
    /\ pc' = "exit"
    /\ UNCHANGED << db, savepoint, tx, dry_run, fetched, duplicates, idx,
                    delete_queue, total_merged, total_deleted, exc, violation,
                    merges, no_dups, issued, before, store_failure, prev >>

\* Lines 112-123: the loop is exhausted, the summary is written.
Summary ==
    /\ pc = "loop"
    /\ idx > Len(duplicates)
    /\ summary' = [merged |-> total_merged, deleted |-> total_deleted]
    /\ pc' = "exit"
    /\ UNCHANGED << db, savepoint, tx, dry_run, fetched, duplicates, idx,
                    delete_queue, total_merged, total_deleted, exc, violation,
                    merges, no_dups, issued, before, store_failure, prev >>

\* AtomicExit without the transaction: the writes stay whatever happens.
AtomicExit_no_rollback(rows, saved, e) == rows

\* The table behind `with transaction.atomic():` when the block is left with
\* exception e: the block's writes are kept, or undone.
AtomicExit(rows, saved, e) == IF e = "none" THEN rows ELSE saved

\* handle() is left: the atomic block commits, or rolls back on an exception;
\* a dry run just returns or lets the exception through.
Exit ==
    /\ pc = "exit"
    /\ IF dry_run
       THEN /\ pc' = IF exc = "none" THEN "Completed" ELSE "Aborted"
            /\ UNCHANGED << db, tx >>
       ELSE /\ pc' = IF exc = "none" THEN "Committed" ELSE "RolledBack"
            /\ tx' = IF exc = "none" THEN "committed" ELSE "rolledback"
            /\ db' = AtomicExit(db, savepoint, exc)
    /\ UNCHANGED << savepoint, dry_run, fetched, duplicates, idx,
                    delete_queue, total_merged, total_deleted, exc, violation,
                    merges, summary, no_dups, issued, before, store_failure,
                    prev >>

\* What a finished run leaves for the comparison with the next one.
RunRecord ==
    [ran |-> TRUE, dry_run |-> dry_run, state |-> pc, exc |-> exc,
     violation |-> violation, summary |-> summary, no_dups |-> no_dups,
     duplicates |-> duplicates, before |-> before]

\* The command is run a second time, on the table the first run left.  The
\* two runs compared are runs the store answered: a first run broken off by
\* a failing store call is not followed by a second.
RunAgain ==
    /\ pc \in Terminal
    /\ prev = NoRun
    /\ store_failure = "none"
    /\ prev' = RunRecord
    /\ pc' = "Start"
    /\ before' = db
    /\ savepoint' = {}
    /\ tx' = "none"
    /\ dry_run' = FALSE
    /\ fetched' = << >>
    /\ duplicates' = << >>
    /\ idx' = 0
    /\ delete_queue' = << >>
    /\ total_merged' = 0
    /\ total_deleted' = 0
    /\ exc' = "none"
    /\ violation' = NoViolation
    /\ merges' = << >>
    /\ summary' = NoSummary
    /\ no_dups' = FALSE
    /\ issued' = {}
    /\ store_failure' = "none"
    /\ UNCHANGED db

RunNext ==
    \/ \E d \in BOOLEAN : Handle(d)
    \/ ListAll
    \/ FindDuplicates
    \/ ListFails
    \/ LookupFails
    \/ ProcessGroup
    \/ DeleteOk
    \/ DeleteFails
    \/ Summary
    \/ Exit

Next ==
    \/ RunNext
    \/ RunAgain

\* One run of the command.
Spec == Init /\ [][RunNext]_vars

\* One run that is not left unfinished: every statement returns or raises.
FairSpec == InitSmall /\ [][RunNext]_vars /\ WF_vars(RunNext)

\* The command run twice in a row.
TwoRuns == InitSmall /\ [][Next]_vars

\* One run over tables whose keys differ in every single field.
FindSpec == InitFind /\ [][RunNext]_vars

\* The exit status of the command: an exception leaving handle() fails it.
ExitCode == IF exc = "none" THEN 0 ELSE 1

\* ------------------------------------------------------------------ claims
\* Two rows carry the same identity key (written field by field).
SameKey(r1, r2) ==
    /\ r1.person_id = r2.person_id
    /\ r1.org_id = r2.org_id
    /\ r1.semester = r2.semester
    /\ r1.year = r2.year

\* The rows of group i of the dict find_duplicates returned.
GroupRows(i) == Range(duplicates[i].positions)

\* The place of row r in the list the store's answer put into its group.
PlaceIn(positions, r) == CHOOSE j \in 1..Len(positions) : positions[j] = r

\* C1: in every state of a run, in either mode, no row with is_admin has had
\* delete() called on it, and every such row of the table the run started
\* on is still in the table.
C1_NoAdminDeleted ==
    \A r \in before : r.is_admin => (r.id \notin issued /\ r \in db)

\* A mutating run deleted the duplicates of one group and then met a group
\* in which an admin row is not the row to keep; it was rolled back.
C1_Witness ==
    /\ pc = "RolledBack"
    /\ violation # NoViolation
    /\ issued # {}
    /\ \E r \in before : r.is_admin

\* C2: a mutating run that met an admin row to delete ends with the table
\* exactly as it was when the run started, whatever it deleted before.
C2_AtomicOnViolation ==
    (pc \in Terminal /\ ~dry_run /\ violation # NoViolation)
        => (pc = "RolledBack" /\ db = before)

\* The violation came on a later group, after an earlier group was merged
\* and its duplicates deleted.
C2_Witness ==
    /\ pc = "RolledBack"
    /\ violation # NoViolation
    /\ total_merged >= 1
    /\ total_deleted >= 1
    /\ db = before

\* C3: after a committed mutating run no two rows of the table share an
\* identity key.
C3_UniqueAfterCommit ==
    pc = "Committed" =>
        \A r1, r2 \in db : SameKey(r1, r2) => r1 = r2

\* A committed run that had duplicates of two groups to delete.
C3_Witness ==
    /\ pc = "Committed"
    /\ Len(merges) >= 2
    /\ Cardinality(issued) >= 2

\* The row kept for group i has the least pos of the group and the rows to
\* delete are exactly the other rows of the group.
KeptIsMinimal(i) ==
    /\ merges[i].key = duplicates[i].key
    /\ merges[i].keep \in GroupRows(i)
    /\ \A r \in GroupRows(i) : merges[i].keep.pos <= r.pos
    /\ Range(merges[i].delete) = GroupRows(i) \ {merges[i].keep}
    /\ Len(merges[i].delete) = Len(duplicates[i].positions) - 1

\* C4 as stated: the row kept has the least pos, among the rows of least pos
\* the least id, and the rows to delete are the rest.
C4_SurvivorMinId ==
    \A i \in 1..Len(merges) :
        /\ KeptIsMinimal(i)
        /\ \A r \in GroupRows(i) :
              r.pos = merges[i].keep.pos => merges[i].keep.id <= r.id

\* C4 amended: the row kept has the least pos, among the rows of least pos
\* it is the one the store returned first, and the rows to delete are the
\* rest.
C4_SurvivorFirstReturned ==
    \A i \in 1..Len(merges) :
        /\ KeptIsMinimal(i)
        /\ \A r \in GroupRows(i) :
              r.pos = merges[i].keep.pos =>
                  PlaceIn(duplicates[i].positions, merges[i].keep)
                      <= PlaceIn(duplicates[i].positions, r)

\* A group of three in which two rows tie on the least pos, the store
\* returned the tied row of greater id first, after a row of greater pos,
\* and that tied row was kept.
C4_Witness ==
    \E i \in 1..Len(merges) :
        /\ Len(duplicates[i].positions) >= 3
        /\ duplicates[i].positions[1].pos > merges[i].keep.pos
        /\ \E r \in GroupRows(i) :
              r.pos = merges[i].keep.pos /\ r.id < merges[i].keep.id

\* The two runs end alike: both wrote the admin error for the same group, or
\* both ended without exception and wrote the same counts (or both wrote
\* that there are no duplicates).
Agree(a, b) ==
    \/ /\ a.violation # NoViolation
       /\ b.violation # NoViolation
       /\ a.violation.key = b.violation.key
    \/ /\ a.exc = "none"
       /\ b.exc = "none"
       /\ a.no_dups = b.no_dups
       /\ a.summary = b.summary

\* A dry run was followed by a mutating run on the same table, which has
\* ended; the store failed no call of either.
DryThenMutating ==
    /\ prev.ran
    /\ prev.dry_run
    /\ prev.before = before
    /\ ~dry_run
    /\ pc \in Terminal
    /\ store_failure = "none"

\* C5 as stated: a dry run and a mutating run started from the same table
\* agree on the outcome (the same group's violation, or the same counts).
C5_Parity ==
    DryThenMutating => Agree(prev, RunRecord)

\* C5 amended: they agree when the store returned the rows to both runs in
\* the same order (and failed no call).
C5_ParitySameOrder ==
    (DryThenMutating /\ prev.duplicates = duplicates)
        => Agree(prev, RunRecord)

\* Both runs got the same answer from the store and merged a group: the
\* mutating run deleted as many rows as the dry run said it would.
C5_Witness ==
    /\ DryThenMutating
    /\ prev.duplicates = duplicates
    /\ pc = "Committed"
    /\ summary.deleted >= 1
    /\ prev.summary = summary

\* C6: in a dry run no transaction is opened, delete() is called on no row
\* and the table stays as it was, in every state of the run.
C6_DryRunNoEffect ==
    dry_run =>
        /\ tx = "none"
        /\ savepoint = {}
        /\ issued = {}
        /\ db = before

\* A dry run that counted the duplicates of one group and then ended on the
\* admin error of a later group.
C6_Witness ==
    /\ dry_run
    /\ pc = "Aborted"
    /\ violation # NoViolation
    /\ total_deleted >= 1

\* A mutating run that committed is followed by a second mutating run.
SecondAfterCommit ==
    /\ prev.ran
    /\ ~prev.dry_run
    /\ prev.state = "Committed"
    /\ pc # "Start"
    /\ ~dry_run

\* C7: the second mutating run finds no duplicate group, writes that there
\* are none, calls delete() on no row and leaves the table as the first run
\* left it.
C7_Idempotent ==
    SecondAfterCommit =>
        /\ duplicates = << >>
        /\ issued = {}
        /\ db = before
        /\ delete_queue = << >>
        /\ (pc \notin {"find", "group"} /\ store_failure = "none") => no_dups
        /\ (pc \in Terminal /\ store_failure = "none") =>
              (pc = "Committed" /\ summary = NoSummary /\ db = before)

\* The first run deleted rows and committed; the second has ended having
\* written that there are no duplicates.
C7_Witness ==
    /\ SecondAfterCommit
    /\ prev.summary.deleted >= 1
    /\ pc = "Committed"
    /\ no_dups

\* find_duplicates has returned its dict.
Listed == pc \notin {"Start", "find", "group"} /\ store_failure # "list"

\* The places at which row r stands in the dict.
PlacesOf(r) ==
    {ij \in (1..Len(duplicates)) \X (1..Cardinality(before)) :
        /\ ij[2] <= Len(duplicates[ij[1]].positions)
        /\ duplicates[ij[1]].positions[ij[2]] = r}

\* C8: two rows stand in the same group exactly when their identity keys
\* are equal, every row whose key occurs more than once stands in exactly
\* one group (once), a row of unique key in none, and no group has one row.
C8_Grouping ==
    Listed =>
        /\ \A i \in 1..Len(duplicates) :
              /\ Len(duplicates[i].positions) > 1
              /\ GroupRows(i) \subseteq before
              /\ \A r \in GroupRows(i) :
                    duplicates[i].key =
                        << r.person_id, r.org_id, r.semester, r.year >>
        /\ \A i, j \in 1..Len(duplicates) :
              \A r1 \in GroupRows(i), r2 \in GroupRows(j) :
                  (i = j) <=> SameKey(r1, r2)
        /\ \A r \in before :
              IF \E r2 \in before : r2 # r /\ SameKey(r, r2)
              THEN Cardinality(PlacesOf(r)) = 1
              ELSE PlacesOf(r) = {}

\* Two groups whose keys differ in the year only.
C8_Witness ==
    /\ Listed
    /\ Len(duplicates) = 2
    /\ duplicates[1].key[4] # duplicates[2].key[4]
    /\ SubSeq(duplicates[1].key, 1, 3) = SubSeq(duplicates[2].key, 1, 3)

\* C9: once a delete() has failed in a mutating run the exception is on its
\* way out (no further group, no further delete, no summary), the run ends
\* rolled back with a failing exit, and the table is as before the run.
C9_DeleteFailureRollsBack ==
    store_failure = "delete" =>
        /\ ~dry_run
        /\ exc = "DeleteFailed"
        /\ pc \in {"exit", "RolledBack"}
        /\ summary = NoSummary
        /\ ExitCode # 0
        /\ pc = "RolledBack" => (db = before /\ tx = "rolledback")

\* A delete() failed after another delete() of the run had gone through.
C9_Witness ==
    /\ store_failure = "delete"
    /\ pc = "RolledBack"
    /\ total_deleted >= 1
    /\ db = before

\* Every group was processed, without admin error and without a failing
\* store call.
AllProcessed ==
    /\ violation = NoViolation
    /\ store_failure = "none"
    /\ Len(merges) = Len(duplicates)

\* C10: every run reaches a terminal state and stays in it; a mutating run
\* ends Committed exactly when every group was processed without admin
\* error or store failure and RolledBack otherwise; a dry run ends Completed
\* or, on an admin error, Aborted; the exit status is 0 exactly in the
\* Committed and Completed states.
C10_RunStateMachine ==
    /\ <>[](pc \in Terminal)
    /\ [][(pc \in Terminal) => (pc' = pc)]_vars
    /\ [](pc \in Terminal =>
            /\ ~dry_run => /\ pc \in {"Committed", "RolledBack"}
                           /\ (pc = "Committed") <=> AllProcessed
            /\ dry_run => /\ pc \in {"Completed", "Aborted"}
                          /\ (pc = "Completed") <=> AllProcessed
                          /\ violation # NoViolation => pc = "Aborted"
            /\ (ExitCode = 0) <=> (pc \in {"Committed", "Completed"}))

\* A mutating run rolled back because a lookup of lines 54-55 failed.
C10_Witness ==
    /\ pc = "RolledBack"
    /\ store_failure = "lookup"
    /\ tx = "rolledback"
    /\ ExitCode # 0

\* Group i of the dict has an admin row among the rows behind the first of
\* its rows sorted by pos.
Violating(i) ==
    admin_positions_to_delete(positions_sorted(duplicates[i].positions))
        # << >>

\* C11: once the admin error is written for a group, in either mode, the
\* exception is on its way out: the loop stands at that group for good, no
\* row is kept for it, no further group is processed, no further delete()
\* is called, no summary is written; and no group before it in the order of
\* the loop had an admin row to delete.
C11_FailFast ==
    /\ [](violation # NoViolation =>
            /\ pc \in {"exit", "RolledBack", "Aborted"}
            /\ exc = "ValueError"
            /\ summary = NoSummary
            /\ delete_queue = << >>
            /\ idx \in 1..Len(duplicates)
            /\ Len(merges) = idx - 1
            /\ violation.key = duplicates[idx].key
            /\ \A k \in 1..Len(merges) : merges[k].key # violation.key
            /\ Violating(idx)
            /\ \A i \in 1..(idx - 1) : ~Violating(i))
    /\ [][(violation # NoViolation) =>
            /\ violation' = violation
            /\ idx' = idx
            /\ merges' = merges
            /\ issued' = issued
            /\ summary' = summary]_vars

\* The run ended on the admin error of the first of two groups: the second
\* group was never processed.
C11_Witness ==
    /\ pc \in {"RolledBack", "Aborted"}
    /\ violation # NoViolation
    /\ idx = 1
    /\ Len(duplicates) = 2
    /\ merges = << >>

\* The sum over the groups of the dict of (rows of the group - 1): the
\* number of places behind the first in the lists of the dict.
DuplicateRows ==
    Cardinality({ij \in (1..Len(duplicates)) \X (2..Cardinality(before)) :
                    ij[2] <= Len(duplicates[ij[1]].positions)})

\* C12: a run that ended without exception either wrote that there are no
\* duplicates (the dict was empty, nothing was deleted) or wrote a summary
\* whose first count is the number of groups of the dict and whose second
\* count is the sum over the groups of (rows - 1); after a mutating run the
\* second count is also the number of rows the table lost.
C12_SummaryCounts ==
    pc \in {"Committed", "Completed"} =>
        IF summary = NoSummary
        THEN no_dups /\ duplicates = << >> /\ db = before
        ELSE /\ ~no_dups
             /\ summary.merged = Len(duplicates)
             /\ summary.deleted = DuplicateRows
             /\ ~dry_run =>
                   summary.deleted = Cardinality(before) - Cardinality(db)

\* A committed run whose summary counts more rows deleted than groups
\* merged: some group had three rows or more.
C12_Witness ==
    /\ pc = "Committed"
    /\ summary # NoSummary
    /\ summary.merged >= 1
    /\ summary.deleted > summary.merged

\* What a run does with the rows returned in the order o: the key of the
\* group it writes the admin error for (or << >>), the keys of all groups
\* with an admin row to delete, and, when there is none, the ids of the
\* rows kept and of the rows deleted.
OutcomeFor(o) ==
    LET d == find_duplicates(o)
        sorted(i) == positions_sorted(d[i].positions)
        bad == {i \in 1..Len(d) : admin_positions_to_delete(sorted(i)) # << >>}
    IN  IF bad # {}
        THEN [violation |-> d[CHOOSE i \in bad : \A j \in bad : i <= j].key,
              violating |-> {d[i].key : i \in bad},
              kept |-> {}, deleted |-> {}]
        ELSE [violation |-> << >>,
              violating |-> {},
              kept |-> {keep_position(sorted(i)).id : i \in 1..Len(d)},
              deleted |-> UNION {Ids(Range(delete_positions(sorted(i)))) :
                                    i \in 1..Len(d)}]

\* What the run did, in the same shape, from what it wrote.
ActualOutcome ==
    IF violation # NoViolation
    THEN [violation |-> violation.key,
          violating |-> {duplicates[i].key :
                            i \in {j \in 1..Len(duplicates) : Violating(j)}},
          kept |-> {}, deleted |-> {}]
    ELSE [violation |-> << >>,
          violating |-> {},
          kept |-> {merges[i].keep.id : i \in 1..Len(merges)},
          deleted |-> UNION {Ids(Range(merges[i].delete)) :
                                i \in 1..Len(merges)}]

\* The run has ended and the store failed none of its calls.
Answered == pc \in Terminal /\ store_failure = "none"

\* No two rows of the table the run started on share an identity key and
\* the least pos of that key.
NoTieOnLeastPos ==
    \A r1, r2 \in before :
        (r1 # r2 /\ SameKey(r1, r2) /\ r1.pos = r2.pos)
            => \E r3 \in before : SameKey(r1, r3) /\ r3.pos < r1.pos

\* The rows in the order of their ids.
ByAscendingId(rows) ==
    [k \in 1..Cardinality(rows) |->
        CHOOSE r \in rows : Cardinality({q \in rows : q.id < r.id}) = k - 1]

\* What the run would have done had the store returned the rows by id.
ByIdOutcome == OutcomeFor(ByAscendingId(before))

\* C13 as stated: in whatever order the store returned the rows (the run
\* takes every order), the run wrote the admin error for the same group,
\* or kept and deleted the same ids, as it does when the store returns
\* them by id; so any two orders give the same outcome.
C13_OrderIndependent ==
    Answered =>
        /\ ActualOutcome.violation = ByIdOutcome.violation
        /\ ActualOutcome.kept = ByIdOutcome.kept
        /\ ActualOutcome.deleted = ByIdOutcome.deleted

\* C13 amended: when no group has two rows of its least pos, then in
\* whatever order the store returned the rows, the same groups have an
\* admin row to delete, the run ends on the admin error exactly when some
\* group has one (for one of those groups, the same group when there is
\* only one), and otherwise keeps and deletes the same ids, as when the
\* store returns the rows by id.
C13_OrderIndependentNoTie ==
    (Answered /\ NoTieOnLeastPos) =>
        /\ ActualOutcome.violating = ByIdOutcome.violating
        /\ ActualOutcome.violation \in
              (IF ByIdOutcome.violating = {}
               THEN {<< >>} ELSE ByIdOutcome.violating)
        /\ Cardinality(ByIdOutcome.violating) <= 1 =>
              ActualOutcome.violation = ByIdOutcome.violation
        /\ ActualOutcome.kept = ByIdOutcome.kept
        /\ ActualOutcome.deleted = ByIdOutcome.deleted

\* A committed run over a group of three rows with one row of least pos,
\* which the store did not return first.
C13_Witness ==
    /\ Answered
    /\ NoTieOnLeastPos
    /\ pc = "Committed"
    /\ \E i \in 1..Len(merges) :
          /\ Len(duplicates[i].positions) >= 3
          /\ duplicates[i].positions[1].pos > merges[i].keep.pos

\* The row of group i the run keeps when it merges the group: of least pos,
\* and among the rows of least pos the one the store returned first.
SurvivorOf(i) ==
    CHOOSE r \in GroupRows(i) :
        \A q \in GroupRows(i) :
            \/ r.pos < q.pos
            \/ /\ r.pos = q.pos
               /\ PlaceIn(duplicates[i].positions, r)
                     <= PlaceIn(duplicates[i].positions, q)

\* The admin rows of group i other than the row to keep.
AdminCandidates(i) ==
    {r \in GroupRows(i) \ {SurvivorOf(i)} : r.is_admin}

\* C14: the admin error is written for a group exactly when a row of the
\* group other than the row to keep is an admin row, with the number of
\* such rows as its count; every group processed without the error has no
\* such row (its row to keep may be an admin row) and is merged: the row is
\* kept, the rest are the rows to delete, and after a commit they are gone
\* from the table while the row kept is in it.
C14_ViolationCondition ==
    /\ \A i \in 1..Len(merges) :
          /\ AdminCandidates(i) = {}
          /\ merges[i].keep = SurvivorOf(i)
          /\ Range(merges[i].delete) = GroupRows(i) \ {SurvivorOf(i)}
          /\ pc = "Committed" =>
                /\ merges[i].keep \in db
                /\ Range(merges[i].delete) \cap db = {}
    /\ violation # NoViolation =>
          /\ violation.key = duplicates[idx].key
          /\ violation.count = Cardinality(AdminCandidates(idx))
          /\ violation.count >= 1
    /\ (pc \in Terminal /\ store_failure = "none") =>
          \A i \in 1..Len(duplicates) :
              (i <= Len(merges)) \/ (i >= idx /\ violation # NoViolation)

\* A committed run merged a group whose row kept is an admin row tying on
\* the least pos with a row that is not, and deleted that row.
C14_Witness ==
    /\ pc = "Committed"
    /\ \E i \in 1..Len(merges) :
          /\ merges[i].keep.is_admin
          /\ \E r \in Range(merges[i].delete) :
                r.pos = merges[i].keep.pos /\ r \notin db

\* The run is inside _process_duplicates.
Processing == pc \in {"find", "group", "loop", "delete", "exit"}

\* C15: a mutating run opens its transaction once, when it starts, before
\* the rows are listed; the transaction is open for as long as the run is
\* inside _process_duplicates, so every delete() is called with it open; it
\* is closed once, when the run is left, by a commit when every group was
\* processed without admin error or failing store call and by a rollback
\* otherwise; a dry run opens none.
C15_TransactionBracket ==
    /\ [](/\ (pc = "Start") => (tx = "none" /\ issued = {})
          /\ (Processing /\ ~dry_run) => tx = "open"
          /\ (pc \in Terminal /\ ~dry_run) =>
                /\ tx \in {"committed", "rolledback"}
                /\ (tx = "committed") <=> AllProcessed
          /\ (pc # "Start" /\ dry_run) => tx = "none")
    /\ [][/\ (tx' # tx) =>
                \/ tx = "none" /\ tx' = "open" /\ pc = "Start"
                \/ /\ tx = "open"
                   /\ tx' \in {"committed", "rolledback"}
                   /\ pc = "exit"
                   /\ pc' \in Terminal
          /\ (fetched' # fetched /\ fetched' # << >>) =>
                (dry_run \/ (tx = "open" /\ tx' = "open"))
          /\ (issued' # issued \/ (db' # db /\ tx' = tx)) =>
                (tx = "open" /\ tx' = "open")]_vars

\* A mutating run deleted the duplicates of two groups inside its
\* transaction and committed it.
C15_Witness ==
    /\ tx = "committed"
    /\ AllProcessed
    /\ Len(duplicates) = 2
    /\ Cardinality(issued) >= 2

\* C16: once the listing of the rows has failed, in either mode, the
\* exception is on its way out of the command: no dict was built, no group
\* was processed, delete() was called on no row, neither the summary nor
\* the no-duplicates line was written, the table is as it was, and the run
\* ends failed (a mutating run rolled back) with a failing exit.
C16_StoreUnavailable ==
    store_failure = "list" =>
        /\ exc = "StoreUnavailable"
        /\ ExitCode # 0
        /\ pc \in {"exit", "RolledBack", "Aborted"}
        /\ pc \in Terminal =>
              pc = (IF dry_run THEN "Aborted" ELSE "RolledBack")
        /\ fetched = << >>
        /\ duplicates = << >>
        /\ idx = 0
        /\ merges = << >>
        /\ violation = NoViolation
        /\ issued = {}
        /\ delete_queue = << >>
        /\ total_merged = 0
        /\ total_deleted = 0
        /\ summary = NoSummary
        /\ ~no_dups
        /\ db = before

\* The listing failed in a dry run over a table that holds duplicates: the
\* run ended failed without having looked at them.
C16_Witness ==
    /\ store_failure = "list"
    /\ dry_run
    /\ pc = "Aborted"
    /\ \E r1, r2 \in db : r1 # r2 /\ SameKey(r1, r2)

\* Row r is the only row of its identity key in the table the run started
\* on.
UniqueKey(r) == \A q \in before : SameKey(r, q) => q = r

\* C17: in every state of a run every row of the table is a row of the
\* table the run started on, with the same id and the same fields (nothing
\* is created, nothing is changed); a row missing from it had delete()
\* called on it; every row whose identity key no other row carries, and
\* every row kept for a group, is in the table.
C17_Frame ==
    /\ db \subseteq before
    /\ \A r \in before \ db : r.id \in issued
    /\ \A r \in before : UniqueKey(r) => (r \in db /\ r.id \notin issued)
    /\ \A i \in 1..Len(merges) :
          /\ merges[i].keep \in before
          /\ merges[i].keep \in db
          /\ merges[i].keep.id \notin issued

\* In the middle of the deletes of a group of three, with a row of another
\* key in the table: one duplicate is gone, the row kept and the row of the
\* other key are there.
C17_Witness ==
    /\ pc = "delete"
    /\ Cardinality(issued) = 1
    /\ Len(delete_queue) = 1
    /\ \E r \in before : UniqueKey(r) /\ r \in db
    /\ merges[Len(merges)].keep \in db

\* The identity keys carried by the rows.
KeysOf(rows) ==
    {<< r.person_id, r.org_id, r.semester, r.year >> : r \in rows}

\* C18: in every state of a run no id stands twice among the rows still to
\* delete or in two groups' delete lists, delete() is not called on an id
\* it was called on already, and no row kept is in a delete list or had
\* delete() called on it; after a committed run the table carries the identity keys
\* it carried before the run, each on exactly one row, which is a row of
\* that key of the table before the run.
C18_NoKeyLost ==
    /\ \A i, j \in 1..Len(delete_queue) :
          delete_queue[i].id = delete_queue[j].id => i = j
    /\ pc = "delete" =>
          \A i \in 1..Len(delete_queue) : delete_queue[i].id \notin issued
    /\ \A i, j \in 1..Len(merges) :
          /\ merges[i].keep.id \notin Ids(Range(merges[j].delete))
          /\ merges[i].keep.id \notin issued
          /\ i # j => Ids(Range(merges[i].delete))
                          \cap Ids(Range(merges[j].delete)) = {}
    /\ \A i \in 1..Len(merges) :
          Cardinality(Ids(Range(merges[i].delete))) = Len(merges[i].delete)
    /\ pc = "Committed" =>
          /\ KeysOf(db) = KeysOf(before)
          /\ Cardinality(db) = Cardinality(KeysOf(before))
          /\ \A r \in db : \E q \in before : q = r
          /\ \A i \in 1..Len(merges) :
                Ids(Range(merges[i].delete)) \subseteq issued

\* A committed run over two keys, one carried by three rows and one by a
\* single row, left one row of each.
C18_Witness ==
    /\ pc = "Committed"
    /\ Cardinality(KeysOf(before)) = 2
    /\ Cardinality(before) = 4
    /\ Cardinality(db) = 2
    /\ Cardinality(issued) = 2
    /\ Len(merges) = 1

=============================================================================
